---- MODULE Spec2Model ----
(***************************************************************************)
(* Model of the physics-and-decision engine of Endurance Protocol:         *)
(* calculateImpactMetrics and calculateDartDeflection (lib/physics.ts) and *)
(* the historical-analog matchers closestImpact / closestEarthquake        *)
(* (components/ImpactStatsModal.tsx).  Spec is one call of one function,   *)
(* SessionSpec a succession of calls in any order, and ModalSpec the DART  *)
(* stage and the analysis fetches of the ImpactStatsModal component.       *)
(*                                                                         *)
(* JavaScript numbers are modelled as decimal floating-point values with a *)
(* six-digit mantissa (IEEE doubles carry about sixteen): a record         *)
(*   [k |-> "fin", s |-> sign, m |-> mantissa, e |-> exponent]             *)
(* stands for s * m * 10^e with m = 0 or 100000 <= m <= 999999, and the    *)
(* kinds "inf" and "nan" stand for +-Infinity and NaN.  Zero is signed.    *)
(* Every arithmetic operator follows the IEEE rules for the special        *)
(* values and rounds its finite result to the mantissa width.              *)
(***************************************************************************)
EXTENDS Integers, Sequences, FiniteSets, TLC

---------------------------------------------------------------------------
(* JavaScript number values *)

NaN == [k |-> "nan", s |-> 1, m |-> 0, e |-> 0]
Inf(sgn) == [k |-> "inf", s |-> sgn, m |-> 0, e |-> 0]
Zero(sgn) == [k |-> "fin", s |-> sgn, m |-> 0, e |-> 0]

Pow10(n) ==
  CASE n = 0 -> 1 [] n = 1 -> 10 [] n = 2 -> 100 [] n = 3 -> 1000
    [] n = 4 -> 10000 [] n = 5 -> 100000 [] n = 6 -> 1000000
    [] n = 7 -> 10000000 [] n = 8 -> 100000000 [] n = 9 -> 1000000000

\* number of decimal digits of n, 1 <= n < 2^31
NumDigits(n) ==
  IF n < 10 THEN 1 ELSE IF n < 100 THEN 2 ELSE IF n < 1000 THEN 3
  ELSE IF n < 10000 THEN 4 ELSE IF n < 100000 THEN 5
  ELSE IF n < 1000000 THEN 6 ELSE IF n < 10000000 THEN 7
  ELSE IF n < 100000000 THEN 8 ELSE IF n < 1000000000 THEN 9 ELSE 10

\* the number sgn * n * 10^ex (n >= 0), rounded to nearest at six digits
Norm(sgn, n, ex) ==
  IF n = 0 THEN Zero(sgn)
  ELSE LET d == NumDigits(n) IN
       IF d <= 6
       THEN [k |-> "fin", s |-> sgn, m |-> n * Pow10(6 - d), e |-> ex - (6 - d)]
       ELSE LET cut == Pow10(d - 6)
                q == n \div cut
                r == n % cut
                up == IF 2 * r >= cut THEN q + 1 ELSE q
            IN IF up = 1000000
               THEN [k |-> "fin", s |-> sgn, m |-> 100000, e |-> ex + (d - 6) + 1]
               ELSE [k |-> "fin", s |-> sgn, m |-> up, e |-> ex + (d - 6)]

\* the literal n * 10^ex, n an integer
Dec(n, ex) == IF n < 0 THEN Norm(-1, -n, ex) ELSE Norm(1, n, ex)
Num(n) == Dec(n, 0)

IsNaN(a) == a.k = "nan"
IsFinite(a) == a.k = "fin"
IsZero(a) == a.k = "fin" /\ a.m = 0

FNeg(a) == IF a.k = "nan" THEN a ELSE [a EXCEPT !.s = -a.s]
FAbs(a) == IF a.k = "nan" THEN a ELSE [a EXCEPT !.s = 1]

\* a * b
FMul(a, b) ==
  IF a.k = "nan" \/ b.k = "nan" THEN NaN
  ELSE IF a.k = "inf" \/ b.k = "inf"
       THEN IF IsZero(a) \/ IsZero(b) THEN NaN ELSE Inf(a.s * b.s)
  ELSE IF a.m = 0 \/ b.m = 0 THEN Zero(a.s * b.s)
  ELSE LET bh == b.m \div 1000
           bl == b.m % 1000
           t == a.m * bh + ((a.m * bl) \div 1000)
       IN Norm(a.s * b.s, t, a.e + b.e + 3)

\* a / b
FDiv(a, b) ==
  IF a.k = "nan" \/ b.k = "nan" THEN NaN
  ELSE IF a.k = "inf"
       THEN IF b.k = "inf" THEN NaN ELSE Inf(a.s * b.s)
  ELSE IF b.k = "inf" THEN Zero(a.s * b.s)
  ELSE IF b.m = 0
       THEN IF a.m = 0 THEN NaN ELSE Inf(a.s * b.s)
  ELSE IF a.m = 0 THEN Zero(a.s * b.s)
  ELSE LET n1 == a.m * 1000
           q1 == n1 \div b.m
           r1 == n1 % b.m
           q2 == (r1 * 1000) \div b.m
           r2 == (r1 * 1000) % b.m
           q3 == (r2 * 10) \div b.m
       IN Norm(a.s * b.s, (q1 * 1000 + q2) * 10 + q3, a.e - b.e - 7)

\* a + b
FAdd(a, b) ==
  IF a.k = "nan" \/ b.k = "nan" THEN NaN
  ELSE IF a.k = "inf"
       THEN IF b.k = "inf" /\ b.s # a.s THEN NaN ELSE a
  ELSE IF b.k = "inf" THEN b
  ELSE IF a.m = 0 THEN (IF b.m = 0 THEN Zero(IF a.s = -1 /\ b.s = -1 THEN -1 ELSE 1) ELSE b)
  ELSE IF b.m = 0 THEN a
  ELSE LET hi == IF a.e >= b.e THEN a ELSE b
           lo == IF a.e >= b.e THEN b ELSE a
           d == hi.e - lo.e
           A == hi.s * hi.m * 1000
           B == IF d > 9 THEN 0 ELSE lo.s * ((lo.m * 1000) \div Pow10(d))
           sum == A + B
       IN IF sum < 0 THEN Norm(-1, -sum, hi.e - 3) ELSE Norm(1, sum, hi.e - 3)

FSub(a, b) == FAdd(a, FNeg(b))

\* a < b (false when either is NaN)
FLt(a, b) ==
  IF a.k = "nan" \/ b.k = "nan" THEN FALSE
  ELSE IF IsZero(a) /\ IsZero(b) THEN FALSE
  ELSE IF a.k = "inf" THEN a.s = -1 /\ ~(b.k = "inf" /\ b.s = -1)
  ELSE IF b.k = "inf" THEN b.s = 1
  ELSE IF IsZero(a) THEN b.s = 1
  ELSE IF IsZero(b) THEN a.s = -1
  ELSE IF a.s # b.s THEN a.s = -1
  ELSE IF a.s = 1
       THEN a.e < b.e \/ (a.e = b.e /\ a.m < b.m)
       ELSE a.e > b.e \/ (a.e = b.e /\ a.m > b.m)

FGt(a, b) == FLt(b, a)
\* a = b as JavaScript's === on numbers
FEq(a, b) ==
  /\ a.k # "nan" /\ b.k # "nan"
  /\ \/ IsZero(a) /\ IsZero(b)
     \/ a = b
FLe(a, b) == FLt(a, b) \/ FEq(a, b)
FGe(a, b) == FLe(b, a)

\* Math.max / Math.min: NaN if either argument is NaN
MathMax(a, b) == IF a.k = "nan" \/ b.k = "nan" THEN NaN ELSE IF FLt(a, b) THEN b ELSE a
MathMin(a, b) == IF a.k = "nan" \/ b.k = "nan" THEN NaN ELSE IF FLt(b, a) THEN b ELSE a

\* Math.floor
MathFloor(a) ==
  IF a.k # "fin" \/ a.m = 0 \/ a.e >= 0 THEN a
  ELSE IF a.e < -6 THEN (IF a.s = 1 THEN Zero(1) ELSE Num(-1))
  ELSE LET cut == Pow10(-a.e)
           q == a.m \div cut
           r == a.m % cut
       IN IF a.s = 1 THEN Norm(1, q, 0)
          ELSE Norm(-1, IF r = 0 THEN q ELSE q + 1, 0)

\* the integer value of an integral number a, |a| < 2^31
ToInt(a) ==
  IF a.m = 0 THEN 0
  ELSE IF a.e >= 0 THEN a.s * a.m * Pow10(a.e)
  ELSE a.s * (a.m \div Pow10(-a.e))

IsInteger(a) ==
  a.k = "fin" /\ (a.m = 0 \/ a.e >= 0 \/ (a.e >= -6 /\ a.m % Pow10(-a.e) = 0))

MathPI == Dec(314159, -5)

\* binary digits of log10(y), 1 <= y < 10, by repeated squaring
RECURSIVE LogBits(_, _, _)
LogBits(y, i, acc) ==
  IF i = 0 THEN acc
  ELSE LET y2 == FMul(y, y) IN
       IF FGe(y2, Num(10))
       THEN LogBits(FDiv(y2, Num(10)), i - 1, 2 * acc + 1)
       ELSE LogBits(y2, i - 1, 2 * acc)

\* Math.log10
MathLog10(a) ==
  IF a.k = "nan" THEN NaN
  ELSE IF a.k = "fin" /\ a.m = 0 THEN Inf(-1)
  ELSE IF a.s = -1 THEN NaN
  ELSE IF a.k = "inf" THEN a
  ELSE LET bits == LogBits([a EXCEPT !.e = -5], 20, 0)
       IN FAdd(Num(a.e + 5), FDiv(Num(bits), Num(1048576)))

\* 10^(1/2), 10^(1/4), ..., 10^(1/256)
ExpTable ==
  << Dec(316228, -5), Dec(177828, -5), Dec(133352, -5), Dec(115478, -5),
     Dec(107461, -5), Dec(103663, -5), Dec(101815, -5), Dec(100904, -5) >>

RECURSIVE ExpBits(_, _, _)
ExpBits(bits, i, acc) ==
  IF i = 0 THEN acc
  ELSE ExpBits(bits \div 2, i - 1,
               IF bits % 2 = 1 THEN FMul(acc, ExpTable[i]) ELSE acc)

\* 10^z for a finite z: z = n + bits/256 + rest, 0 <= rest < 1/256
ExpTail(x, x2) ==
  FAdd(FAdd(FAdd(Num(1), x), FDiv(x2, Num(2))), FDiv(FMul(x2, x), Num(6)))

ExpScale(r, n) == [r EXCEPT !.e = r.e + n]

ExpRest(rest, bits, n) ==
  ExpScale(ExpBits(bits, 8, ExpTail(rest, FMul(rest, rest))), n)

ExpSplit(f, bits, n) ==
  ExpRest(FMul(FSub(f, FDiv(Num(bits), Num(256))), Dec(230259, -5)), bits, n)

ExpFrac(f, n) == ExpSplit(f, ToInt(MathFloor(FMul(f, Num(256)))), n)

ExpFloor(z, n) == ExpFrac(FSub(z, n), ToInt(n))

Exp10(z) == ExpFloor(z, MathFloor(z))

RECURSIVE IntPow(_, _)
IntPow(x, n) == IF n = 0 THEN Num(1) ELSE FMul(IntPow(x, n - 1), x)

\* Math.pow(x, y) for a finite exponent y > 0
MathPow(x, y) ==
  IF x.k = "nan" THEN NaN
  ELSE IF IsInteger(y) THEN IntPow(x, ToInt(y))
  ELSE IF x.k = "fin" /\ x.m = 0 THEN Zero(1)
  ELSE IF x.s = -1 THEN (IF x.k = "inf" THEN Inf(1) ELSE NaN)
  ELSE IF x.k = "inf" THEN x
  ELSE Exp10(FMul(y, MathLog10(x)))

\* Math.PI / 2 and Math.PI / 4, rounded toward zero: Math.asin and
\* Math.atan2 never return more than these in magnitude
HalfPi == Dec(157079, -5)
QuarterPi == Dec(785398, -6)

\* 1 - (r2 / c) * inner: one step of an alternating series in Horner form
SeriesStep(r2, c, inner) == FSub(Num(1), FMul(FDiv(r2, Num(c)), inner))

\* sin r and cos r for |r| <= pi/4, r2 = r * r
SinSeries(r, r2) ==
  FMul(r, SeriesStep(r2, 6, SeriesStep(r2, 20, SeriesStep(r2, 42,
                                                 SeriesStep(r2, 72, Num(1))))))

CosSeries(r2) ==
  SeriesStep(r2, 2, SeriesStep(r2, 12, SeriesStep(r2, 30,
                                         SeriesStep(r2, 56, Num(1)))))

\* the multiple of pi/2 nearest to a
NearestQuarterTurn(a) ==
  ToInt(MathFloor(FAdd(FDiv(a, FDiv(MathPI, Num(2))), Dec(5, -1))))

\* a minus k quarter turns
QuarterTurnRest(a, k) == FSub(a, FDiv(FMul(Num(k), MathPI), Num(2)))

\* <<sin, cos>> of r + q quarter turns, from s = sin r and c = cos r
SinCosQuadrant(s, c, q) ==
  CASE q = 0 -> << s, c >>
    [] q = 1 -> << c, FNeg(s) >>
    [] q = 2 -> << FNeg(s), FNeg(c) >>
    [] q = 3 -> << FNeg(c), s >>

SinCosSeries(r, r2, q) == SinCosQuadrant(SinSeries(r, r2), CosSeries(r2), q)

SinCosRest(r, q) == SinCosSeries(r, FMul(r, r), q)

SinCosReduced(a, k) == SinCosRest(QuarterTurnRest(a, k), k % 4)

\* << Math.sin(a), Math.cos(a) >>
SinCos(a) ==
  IF a.k # "fin" THEN << NaN, NaN >> ELSE SinCosReduced(a, NearestQuarterTurn(a))

\* Math.sin
MathSin(a) == SinCos(a)[1]

\* Math.cos
MathCos(a) == SinCos(a)[2]

RECURSIVE SqrtNewton(_, _, _)
SqrtNewton(v, x, n) ==
  IF n = 0 THEN x
  ELSE SqrtNewton(v, FDiv(FAdd(x, FDiv(v, x)), Num(2)), n - 1)

\* Math.sqrt
MathSqrt(a) ==
  IF a.k = "nan" THEN NaN
  ELSE IF a.k = "fin" /\ a.m = 0 THEN a
  ELSE IF a.s = -1 THEN NaN
  ELSE IF a.k = "inf" THEN a
  ELSE SqrtNewton(a, [k |-> "fin", s |-> 1, m |-> 300000,
                      e |-> ((a.e + 5) \div 2) - 5], 7)

\* 1/c - u2 * inner: one step of the arctangent series in Horner form
AtanStep(u2, c, inner) == FSub(FDiv(Num(1), Num(c)), FMul(u2, inner))

\* atan u for |u| <= tan(pi/8), u2 = u * u
AtanSeries(u, u2) ==
  FMul(u, AtanStep(u2, 1, AtanStep(u2, 3, AtanStep(u2, 5, AtanStep(u2, 7,
          AtanStep(u2, 9, AtanStep(u2, 11, AtanStep(u2, 13,
                                             FDiv(Num(1), Num(15))))))))))

AtanSmall(u) == AtanSeries(u, FMul(u, u))

\* atan t for 0 < t <= 1: above tan(pi/8) it is pi/4 + atan((t - 1)/(t + 1))
AtanUnitArg(far, t) ==
  IF far THEN FDiv(FSub(t, Num(1)), FAdd(t, Num(1))) ELSE t

AtanUnitOf(far, v) == IF far THEN FAdd(QuarterPi, v) ELSE v

AtanUnitBy(far, t) == AtanUnitOf(far, AtanSmall(AtanUnitArg(far, t)))

AtanUnit(t) == AtanUnitBy(FGt(t, Dec(414214, -6)), t)

\* atan t for t > 0: above 1 it is pi/2 - atan(1/t)
AtanPosArg(far, t) == IF far THEN FDiv(Num(1), t) ELSE t

AtanPosOf(far, v) == IF far THEN FSub(HalfPi, v) ELSE v

AtanPosBy(far, t) == AtanPosOf(far, AtanUnit(AtanPosArg(far, t)))

AtanPos(t) == AtanPosBy(FGt(t, Num(1)), t)

\* t with the sign of y
WithSignOf(y, t) == [t EXCEPT !.s = y.s]

\* the angle of (x, y) from v = atan |y / x|
Atan2Quadrant(y, x, v) == WithSignOf(y, IF x.s = 1 THEN v ELSE FSub(MathPI, v))

\* Math.atan2(y, x)
MathAtan2(y, x) ==
  IF y.k = "nan" \/ x.k = "nan" THEN NaN
  ELSE IF y.k = "inf"
       THEN IF x.k = "inf"
            THEN WithSignOf(y, IF x.s = 1 THEN QuarterPi ELSE FMul(Num(3), QuarterPi))
            ELSE WithSignOf(y, HalfPi)
  ELSE IF x.k = "inf" \/ y.m = 0
       THEN WithSignOf(y, IF x.s = 1 THEN Zero(1) ELSE MathPI)
  ELSE IF x.m = 0 THEN WithSignOf(y, HalfPi)
  ELSE Atan2Quadrant(y, x, AtanPos(FDiv(FAbs(y), FAbs(x))))

\* Math.asin
MathAsin(a) ==
  IF a.k # "fin" \/ FGt(FAbs(a), Num(1)) THEN NaN
  ELSE MathAtan2(a, MathSqrt(FMul(FSub(Num(1), a), FAdd(Num(1), a))))

\* null and undefined, in the shape of a number so that they can be compared
Null == [k |-> "null", s |-> 1, m |-> 0, e |-> 0]
Undefined == [k |-> "undefined", s |-> 1, m |-> 0, e |-> 0]

\* truthiness of an optional number: undefined, null, 0 and NaN are falsy
Truthy(a) == a.k = "inf" \/ (a.k = "fin" /\ a.m # 0)

\* parseFloat(a.toFixed(2)): a rounded to two decimals, halves away from zero
ToFixed2(a) ==
  IF a.k # "fin" \/ a.m = 0 \/ a.e >= -2 THEN a
  ELSE IF a.e < -8 THEN Zero(a.s)
  ELSE LET cut == Pow10(-a.e - 2)
           q == a.m \div cut
           r == a.m % cut
       IN Norm(a.s, IF 2 * r >= cut THEN q + 1 ELSE q, -2)

\* parseFloat(a.toFixed(1))
ToFixed1(a) ==
  IF a.k # "fin" \/ a.m = 0 \/ a.e >= -1 THEN a
  ELSE IF a.e < -7 THEN Zero(a.s)
  ELSE LET cut == Pow10(-a.e - 1)
           q == a.m \div cut
           r == a.m % cut
       IN Norm(a.s, IF 2 * r >= cut THEN q + 1 ELSE q, -1)

---------------------------------------------------------------------------
(* lib/physics.ts *)

massIgnoringDiameter(diameterMeters, densityKgM3) ==
  FMul(FMul(FDiv(Num(4), Num(3)), MathPI), densityKgM3)

\* step 1 of calculateImpactMetrics: volume and mass
mass(diameterMeters, densityKgM3) ==
  FMul(FMul(FMul(FDiv(Num(4), Num(3)), MathPI),
            IntPow(FDiv(diameterMeters, Num(2)), 3)),
       densityKgM3)

\* step 2: kinetic energy from the mass and the velocity in m/s
EnergyOf(massKg, velocityMS) ==
  FMul(FMul(FMul(Dec(5, -1), massKg), velocityMS), velocityMS)

kineticEnergyJ(diameterMeters, velocityKmS, densityKgM3) ==
  EnergyOf(mass(diameterMeters, densityKgM3), FMul(velocityKmS, Num(1000)))

tntMegatonsPerThousandMegatons(energyJ) == FDiv(energyJ, Dec(4184, 15))

\* step 3: TNT megatons
tntMegatons(energyJ) == FDiv(energyJ, Dec(4184, 12))

craterDiameterKmInverted(diameterMeters, densityKgM3) ==
  FMul(FMul(Dec(18, -1),
            MathPow(FDiv(Num(1000), diameterMeters), Dec(78, -2))),
       MathPow(FDiv(densityKgM3, Num(3000)), Dec(33, -2)))

\* step 4: crater diameter
craterDiameterKm(diameterMeters, densityKgM3) ==
  FMul(FMul(Dec(18, -1),
            MathPow(FDiv(diameterMeters, Num(1000)), Dec(78, -2))),
       MathPow(FDiv(densityKgM3, Num(3000)), Dec(33, -2)))

destructionRadiusKmDoubled(craterKm) == FMul(craterKm, Num(2))

\* step 5: destruction radius
destructionRadiusKm(craterKm) == FMul(craterKm, Dec(15, -1))

\* step 6: the casualty estimate inside the if
casualtyEstimate(targetPopulation, destructionKm) ==
  MathFloor(FMul(FDiv(FMul(targetPopulation,
                           FMul(MathPI, IntPow(destructionKm, 2))),
                      Num(100)),
                 Dec(5, -1)))

\* step 6: null unless targetPopulation is truthy
approxCasualties(targetPopulation, destructionKm) ==
  IF Truthy(targetPopulation)
  THEN casualtyEstimate(targetPopulation, destructionKm)
  ELSE Null

energyToRichterMagnitude(energyJ) ==
  FSub(FMul(FDiv(Num(2), Num(3)), MathLog10(energyJ)), Dec(29, -1))

ImpactMetricsCraterUnrounded(energyJ, craterKm, destructionKm, targetPopulation) ==
  [kineticEnergyJ |-> energyJ,
   tntMegatons |-> ToFixed2(tntMegatons(energyJ)),
   craterDiameterKm |-> craterKm,
   destructionRadiusKm |-> ToFixed2(destructionKm),
   approxCasualties |-> approxCasualties(targetPopulation, destructionKm),
   seismicEquivalentMagnitude |-> ToFixed1(energyToRichterMagnitude(energyJ))]

\* the returned object
ImpactMetrics(energyJ, craterKm, destructionKm, targetPopulation) ==
  [kineticEnergyJ |-> energyJ,
   tntMegatons |-> ToFixed2(tntMegatons(energyJ)),
   craterDiameterKm |-> ToFixed2(craterKm),
   destructionRadiusKm |-> ToFixed2(destructionKm),
   approxCasualties |-> approxCasualties(targetPopulation, destructionKm),
   seismicEquivalentMagnitude |-> ToFixed1(energyToRichterMagnitude(energyJ))]

MetricsOfCrater(energyJ, craterKm, targetPopulation) ==
  ImpactMetrics(energyJ, craterKm, destructionRadiusKm(craterKm), targetPopulation)

calculateImpactMetrics(diameterMeters, velocityKmS, densityKgM3, targetPopulation) ==
  MetricsOfCrater(kineticEnergyJ(diameterMeters, velocityKmS, densityKgM3),
                  craterDiameterKm(diameterMeters, densityKgM3),
                  targetPopulation)

\* degrees to radians and back
RadPerDeg == FDiv(MathPI, Num(180))
DegPerRad == FDiv(Num(180), MathPI)

\* the point [x, y, z] from p = << sin phi, cos phi >> of the polar angle and
\* t = << sin theta, cos theta >> of the azimuth
SpacePoint(radius, p, t) ==
  << FMul(FMul(radius, p[1]), t[1]),
     FMul(radius, p[2]),
     FMul(FMul(radius, p[1]), t[2]) >>

latLonToVector3(lat, lon, radius) ==
  SpacePoint(radius, SinCos(FMul(FSub(Num(90), lat), RadPerDeg)),
             SinCos(FMul(FSub(lon, Num(270)), RadPerDeg)))

vector3ToLatLonUnclamped(x, y, z, radius) ==
  [lat |-> FMul(MathAsin(FDiv(y, radius)), DegPerRad),
   lon |-> FMul(MathAtan2(x, z), DegPerRad)]

vector3ToLatLon(x, y, z, radius) ==
  [lat |-> FMul(MathAsin(MathMax(Num(-1), MathMin(Num(1), FDiv(y, radius)))),
                DegPerRad),
   lon |-> FMul(MathAtan2(x, z), DegPerRad)]

\* the reason strings of calculateDartDeflection
ReasonTooLarge == "Asteroid too large for single DART mission. Would require multiple kinetic impactors or nuclear deflection."
ReasonLargeSuccess == "Successful deflection with significant lead time. Large asteroid requires early intervention."
ReasonLargeFail == "Insufficient deflection. Larger asteroid needs more warning time or multiple missions."
ReasonMediumSuccess == "Successful deflection achieved. Medium-sized asteroid responds well to kinetic impact."
ReasonMediumFail == "Insufficient warning time. Deflection too small to avoid Earth collision."
ReasonMarginal == "Marginal success. Asteroid trajectory altered enough to reduce impact severity."
ReasonSmallHigh == "Highly successful deflection. Small asteroid easily diverted with significant margin."
ReasonSmall == "Successful deflection. Small asteroid trajectory sufficiently altered."

earthRadiusKm == Num(6371)

minimumMissKmNoMargin == earthRadiusKm

minimumMissKm == FAdd(earthRadiusKm, Num(10000))

\* step 5 of calculateDartDeflection, one operator per diameter tier

TierVeryLargeAsLarge(leadTimeYears, missDistanceKm) ==
  IF FGe(leadTimeYears, Num(10)) /\ FGt(missDistanceKm, minimumMissKm)
  THEN [success |-> TRUE, confidence |-> 60, reason |-> ReasonLargeSuccess]
  ELSE [success |-> FALSE, confidence |-> 5, reason |-> ReasonTooLarge]

TierVeryLarge(leadTimeYears, missDistanceKm) ==
  [success |-> FALSE, confidence |-> 5, reason |-> ReasonTooLarge]

TierLargeEitherCondition(leadTimeYears, missDistanceKm) ==
  IF FGe(leadTimeYears, Num(10)) \/ FGt(missDistanceKm, minimumMissKm)
  THEN [success |-> TRUE, confidence |-> 60, reason |-> ReasonLargeSuccess]
  ELSE [success |-> FALSE, confidence |-> 30, reason |-> ReasonLargeFail]

TierLarge(leadTimeYears, missDistanceKm) ==
  IF FGe(leadTimeYears, Num(10)) /\ FGt(missDistanceKm, minimumMissKm)
  THEN [success |-> TRUE, confidence |-> 60, reason |-> ReasonLargeSuccess]
  ELSE [success |-> FALSE, confidence |-> 30, reason |-> ReasonLargeFail]

TierMediumLeadInclusive(leadTimeYears, missDistanceKm) ==
  IF FGt(missDistanceKm, minimumMissKm)
  THEN [success |-> TRUE, confidence |-> 85, reason |-> ReasonMediumSuccess]
  ELSE IF FLe(leadTimeYears, Num(2))
  THEN [success |-> FALSE, confidence |-> 40, reason |-> ReasonMediumFail]
  ELSE [success |-> TRUE, confidence |-> 70, reason |-> ReasonMarginal]

TierMedium(leadTimeYears, missDistanceKm) ==
  IF FGt(missDistanceKm, minimumMissKm)
  THEN [success |-> TRUE, confidence |-> 85, reason |-> ReasonMediumSuccess]
  ELSE IF FLt(leadTimeYears, Num(2))
  THEN [success |-> FALSE, confidence |-> 40, reason |-> ReasonMediumFail]
  ELSE [success |-> TRUE, confidence |-> 70, reason |-> ReasonMarginal]

TierSmallSingleMargin(leadTimeYears, missDistanceKm) ==
  IF FGt(missDistanceKm, minimumMissKm)
  THEN [success |-> TRUE, confidence |-> 95, reason |-> ReasonSmallHigh]
  ELSE [success |-> TRUE, confidence |-> 80, reason |-> ReasonSmall]

TierSmall(leadTimeYears, missDistanceKm) ==
  IF FGt(missDistanceKm, FMul(minimumMissKm, Num(2)))
  THEN [success |-> TRUE, confidence |-> 95, reason |-> ReasonSmallHigh]
  ELSE [success |-> TRUE, confidence |-> 80, reason |-> ReasonSmall]

ClassifyMarginalAs85(asteroidDiameterM, leadTimeYears, missDistanceKm) ==
  IF FGt(asteroidDiameterM, Num(1000))
  THEN TierVeryLarge(leadTimeYears, missDistanceKm)
  ELSE IF FGt(asteroidDiameterM, Num(500))
  THEN TierLarge(leadTimeYears, missDistanceKm)
  ELSE IF FGt(asteroidDiameterM, Num(100))
  THEN LET c == TierMedium(leadTimeYears, missDistanceKm)
       IN IF c.confidence = 70 THEN [c EXCEPT !.confidence = 85] ELSE c
  ELSE TierSmall(leadTimeYears, missDistanceKm)

ClassifyLowerInclusive(asteroidDiameterM, leadTimeYears, missDistanceKm) ==
  IF FGe(asteroidDiameterM, Num(1000))
  THEN TierVeryLarge(leadTimeYears, missDistanceKm)
  ELSE IF FGe(asteroidDiameterM, Num(500))
  THEN TierLarge(leadTimeYears, missDistanceKm)
  ELSE IF FGe(asteroidDiameterM, Num(100))
  THEN TierMedium(leadTimeYears, missDistanceKm)
  ELSE TierSmall(leadTimeYears, missDistanceKm)

Classify(asteroidDiameterM, leadTimeYears, missDistanceKm) ==
  IF FGt(asteroidDiameterM, Num(1000))
  THEN TierVeryLarge(leadTimeYears, missDistanceKm)
  ELSE IF FGt(asteroidDiameterM, Num(500))
  THEN TierLarge(leadTimeYears, missDistanceKm)
  ELSE IF FGt(asteroidDiameterM, Num(100))
  THEN TierMedium(leadTimeYears, missDistanceKm)
  ELSE TierSmall(leadTimeYears, missDistanceKm)

\* step 1: asteroid mass
asteroidMassKg(asteroidDiameterM, asteroidDensityKgM3) ==
  FMul(FMul(FMul(FDiv(Num(4), Num(3)), MathPI),
            IntPow(FDiv(asteroidDiameterM, Num(2)), 3)),
       asteroidDensityKgM3)

\* step 2: momentum transfer with enhancement from ejecta
velocityChangeMS(dartMassKg, dartVelocityKmS, momentumEnhancement, massKg) ==
  FDiv(FMul(momentumEnhancement, FMul(FMul(dartMassKg, dartVelocityKmS), Num(1000))),
       massKg)

\* step 3: deflection distance over the lead time
deflectionDistanceKmShrinkingWithLead(deltaV, leadTimeYears) ==
  FDiv(FDiv(FMul(deltaV, FMul(FMul(Dec(36525, -2), Num(24)), Num(3600))),
            leadTimeYears),
       Num(1000))

deflectionDistanceKm(deltaV, leadTimeYears) ==
  FDiv(FMul(deltaV,
            FMul(FMul(FMul(leadTimeYears, Dec(36525, -2)), Num(24)), Num(3600))),
       Num(1000))

\* steps 4, 5 and the returned object; missDistanceKm = deflectionDistanceKm
DeflectionOutcome(c, deltaV, distanceKm) ==
  [success |-> c.success,
   velocityChangeMS |-> deltaV,
   deflectionDistanceKm |-> distanceKm,
   missDistanceKm |-> distanceKm,
   confidence |-> c.confidence,
   reason |-> c.reason]

DeflectionAfter(asteroidDiameterM, leadTimeYears, deltaV, distanceKm) ==
  DeflectionOutcome(Classify(asteroidDiameterM, leadTimeYears, distanceKm),
                    deltaV, distanceKm)

DeflectionOf(asteroidDiameterM, leadTimeYears, deltaV) ==
  DeflectionAfter(asteroidDiameterM, leadTimeYears, deltaV,
                  deflectionDistanceKm(deltaV, leadTimeYears))

calculateDartDeflectionClosingSpeed(asteroidVelocityKmS, asteroidDiameterM, asteroidDensityKgM3, leadTimeYears, dartMassKg, dartVelocityKmS, momentumEnhancement) ==
  DeflectionOf(asteroidDiameterM, leadTimeYears,
               velocityChangeMS(dartMassKg,
                                FAdd(dartVelocityKmS, asteroidVelocityKmS),
                                momentumEnhancement,
                                asteroidMassKg(asteroidDiameterM, asteroidDensityKgM3)))

calculateDartDeflection(asteroidVelocityKmS, asteroidDiameterM, asteroidDensityKgM3, leadTimeYears, dartMassKg, dartVelocityKmS, momentumEnhancement) ==
  DeflectionOf(asteroidDiameterM, leadTimeYears,
               velocityChangeMS(dartMassKg, dartVelocityKmS, momentumEnhancement,
                                asteroidMassKg(asteroidDiameterM, asteroidDensityKgM3)))

---------------------------------------------------------------------------
(* components/ImpactStatsModal.tsx: the historical-analog matchers *)

\* a thrown exception
Threw(e) == [threw |-> TRUE, value |-> e]
Returned(v) == [threw |-> FALSE, value |-> v]

\* historicalImpacts.map(...): every record with its score
ImpactScore(impact, targetEnergy, targetCrater) ==
  FAdd(FMul(MathMin(FDiv(FAbs(FSub(impact.energy_mt, targetEnergy)),
                         MathMax(targetEnergy, Num(1))),
                    Num(1)),
            Dec(7, -1)),
       FMul(MathMin(FDiv(FAbs(FSub(impact.crater_km, targetCrater)),
                         MathMax(targetCrater, Num(1))),
                    Num(1)),
            Dec(3, -1)))

ScoredImpacts(catalog, targetEnergy, targetCrater) ==
  [i \in 1..Len(catalog) |->
     [name |-> catalog[i].name, energy_mt |-> catalog[i].energy_mt,
      crater_km |-> catalog[i].crater_km,
      score |-> ImpactScore(catalog[i], targetEnergy, targetCrater)]]

\* scored.sort((a, b) => a.score - b.score): a stable sort by ascending score
RECURSIVE InsertByScore(_, _)
InsertByScore(sorted, r) ==
  IF Len(sorted) = 0 THEN <<r>>
  ELSE IF FLt(r.score, sorted[1].score) THEN <<r>> \o sorted
  ELSE <<sorted[1]>> \o InsertByScore(Tail(sorted), r)

RECURSIVE SortByScore(_)
SortByScore(scored) ==
  IF Len(scored) = 0 THEN <<>>
  ELSE InsertByScore(SortByScore(SubSeq(scored, 1, Len(scored) - 1)),
                     scored[Len(scored)])

\* Math.floor(Math.log10(energy_mt))
EnergyDecade(energy_mt) == MathFloor(MathLog10(energy_mt))

\* the for loop of closestImpact from index i (1-based) up to last:
\* the index of the first candidate of another energy decade, or 0
RECURSIVE ScanImpacts(_, _, _, _)
ScanImpacts(sorted, i, last, energyDecade) ==
  IF i > last THEN 0
  ELSE IF /\ FGe(FAbs(FSub(energyDecade, EnergyDecade(sorted[i].energy_mt))), Num(1))
          /\ FLt(sorted[i].score, Dec(5, -1))
  THEN i
  ELSE ScanImpacts(sorted, i + 1, last, energyDecade)

ImpactVariety(sorted, found) ==
  IF found # 0 THEN Returned(sorted[found]) ELSE Returned(sorted[1])

PickImpactAlwaysScan(sorted) ==
  IF Len(sorted) = 0
  THEN Threw("TypeError")
  ELSE ImpactVariety(sorted,
         ScanImpacts(sorted, 2, IF Len(sorted) < 5 THEN Len(sorted) ELSE 5,
                     EnergyDecade(sorted[1].energy_mt)))

PickImpactFiveAfterBest(sorted) ==
  IF Len(sorted) > 1 /\ FLt(sorted[1].score, Dec(1, -1))
  THEN Returned(sorted[1])
  ELSE IF Len(sorted) = 0
  THEN Threw("TypeError")
  ELSE ImpactVariety(sorted,
         ScanImpacts(sorted, 2, IF Len(sorted) < 6 THEN Len(sorted) ELSE 6,
                     EnergyDecade(sorted[1].energy_mt)))

PickImpact(sorted) ==
  IF Len(sorted) > 1 /\ FLt(sorted[1].score, Dec(1, -1))
  THEN Returned(sorted[1])
  ELSE IF Len(sorted) = 0
  THEN Threw("TypeError")
  ELSE ImpactVariety(sorted,
         ScanImpacts(sorted, 2, IF Len(sorted) < 5 THEN Len(sorted) ELSE 5,
                     EnergyDecade(sorted[1].energy_mt)))

closestImpact(tnt, crater, dartStage, catalog) ==
  IF dartStage = "complete" THEN Returned(Null)
  ELSE PickImpact(SortByScore(ScoredImpacts(catalog, tnt, crater)))

EarthquakeScore(earthquake, targetMagnitude, targetEnergy) ==
  FAdd(FMul(MathMin(FDiv(FAbs(FSub(earthquake.magnitude, targetMagnitude)), Num(2)),
                    Num(1)),
            Dec(6, -1)),
       FMul(MathMin(FDiv(FAbs(FSub(earthquake.energy_mt, targetEnergy)),
                         MathMax(targetEnergy, Num(1))),
                    Num(1)),
            Dec(4, -1)))

ScoredEarthquakes(catalog, targetMagnitude, targetEnergy) ==
  [i \in 1..Len(catalog) |->
     [name |-> catalog[i].name, magnitude |-> catalog[i].magnitude,
      energy_mt |-> catalog[i].energy_mt, casualties |-> catalog[i].casualties,
      score |-> EarthquakeScore(catalog[i], targetMagnitude, targetEnergy)]]

\* sorted.filter((eq) => eq.casualties > 100 || eq.magnitude >= 7.5)
IsImpactful(eq) == FGt(eq.casualties, Num(100)) \/ FGe(eq.magnitude, Dec(75, -1))

RECURSIVE Impactful(_)
Impactful(sorted) ==
  IF Len(sorted) = 0 THEN <<>>
  ELSE IF IsImpactful(sorted[1]) THEN <<sorted[1]>> \o Impactful(Tail(sorted))
  ELSE Impactful(Tail(sorted))

RECURSIVE ScanEarthquakes(_, _, _, _)
ScanEarthquakes(impactful, i, last, topMag) ==
  IF i > last THEN 0
  ELSE IF /\ FGe(FAbs(FSub(impactful[i].magnitude, topMag)), Dec(5, -1))
          /\ FLt(impactful[i].score, Dec(4, -1))
  THEN i
  ELSE ScanEarthquakes(impactful, i + 1, last, topMag)

EarthquakeVariety(impactful, found) ==
  IF found # 0 THEN Returned(impactful[found]) ELSE Returned(impactful[1])

PickEarthquake(sorted, impactful) ==
  IF Len(impactful) > 0
  THEN IF FLt(impactful[1].score, Dec(15, -2))
       THEN Returned(impactful[1])
       ELSE EarthquakeVariety(impactful,
              ScanEarthquakes(impactful, 2,
                              IF Len(impactful) < 8 THEN Len(impactful) ELSE 8,
                              impactful[1].magnitude))
  ELSE IF Len(sorted) = 0 THEN Returned(Undefined)
  ELSE Returned(sorted[1])

PickFromSortedUnfiltered(sorted) == PickEarthquake(sorted, sorted)

PickFromSorted(sorted) == PickEarthquake(sorted, Impactful(sorted))

closestEarthquake(magnitude, tnt, dartStage, catalog) ==
  IF ~Truthy(magnitude) \/ dartStage = "complete" THEN Returned(Null)
  ELSE PickFromSorted(SortByScore(ScoredEarthquakes(catalog, magnitude, tnt)))

---------------------------------------------------------------------------
(* The engine as a state machine: a run is one call of one function.  The  *)
(* initial state holds the function called and its arguments, drawn from   *)
(* the sets below; the call's step records what it returned or threw.      *)

\* one call of the engine: its position, the function called, its
\* arguments and its result; and the two imported catalogs
VARIABLES pc, fn, args, ret, historicalImpacts, majorEarthquakes

\* ImpactStatsModal: the isOpen prop, its state hooks, whether the content
\* under AnimatePresence is still in the tree, and the fetches of
\* fetchGeminiAnalysis: how many were issued and which have not settled
VARIABLES isOpen, dartStage, impactTrajComplete, dartResult, geminiAnalysis,
          loading, panelMounted, requestCount, pending

engineVars == <<pc, fn, args, ret, historicalImpacts, majorEarthquakes>>

modalVars ==
  <<isOpen, dartStage, impactTrajComplete, dartResult, geminiAnalysis, loading,
    panelMounted, requestCount, pending>>

vars == <<engineVars, modalVars>>

Velocities == {Num(-5), Zero(1), Num(12), Num(20)}
Diameters == {Num(-50), Zero(1), Dec(1, -3), Num(1), Num(30), Num(40), Num(100), Num(101), Num(300),
              Num(500), Num(501), Num(1000), Num(1001), Num(2000)}
Densities == {Num(-3000), Zero(1), Num(1500), Num(3000)}
LeadTimes == {Num(-1), Zero(1), Num(1), Num(2), Num(5), Num(9), Num(10), Num(100)}
DartMasses == {Num(570), Num(570000)}
DartVelocities == {Dec(66, -1)}
Enhancements == {Num(1), Dec(36, -1)}
Populations == {Undefined, Zero(1), Num(1000), Num(8000000)}

\* the metrics the matchers are queried with
TargetEnergies == {Dec(5, -1), Num(20), Dec(7509, -2), Num(2000)}
TargetCraters == {Dec(3, -1), Dec(18, -1), Num(24)}
TargetMagnitudes == {Zero(1), Dec(67, -1), Dec(88, -1)}
DartStages == {"idle", "animating", "complete"}

Impact(n, energy, crater) == [name |-> n, energy_mt |-> energy, crater_km |-> crater]
Earthquake(n, mag, energy, dead) ==
  [name |-> n, magnitude |-> mag, energy_mt |-> energy, casualties |-> dead]

\* records the catalogs are filled from, in file order
ImpactPool ==
  << Impact("Chelyabinsk", Dec(5, -1), Zero(1)),
     Impact("Tunguska", Num(12), Zero(1)),
     Impact("Barringer", Num(10), Dec(12, -1)),
     Impact("Lonar", Num(80), Dec(18, -1)),
     Impact("Ries", Num(1000), Num(24)),
     Impact("Chicxulub", Num(100000000), Num(180)),
     Impact("Vredefort", Num(1000000000), Num(300)) >>

EarthquakePool ==
  << Earthquake("Northridge 1994", Dec(67, -1), Dec(2, -1), Num(57)),
     Earthquake("Haiti 2010", Num(7), Dec(5, -1), Num(160000)),
     Earthquake("Valdivia 1960", Dec(95, -1), Num(2700), Num(5700)),
     Earthquake("Napa 2014", Num(6), Dec(15, -3), Num(1)),
     Earthquake("San Francisco 1906", Dec(79, -1), Num(10), Num(3000)),
     Earthquake("Sumatra 2004", Dec(91, -1), Num(800), Num(227898)),
     Earthquake("Loma Prieta 1989", Dec(69, -1), Dec(3, -1), Num(63)),
     Earthquake("Alaska 1964", Dec(92, -1), Num(1000), Num(131)),
     Earthquake("Tohoku 2011", Dec(9, 0), Num(600), Num(19759)),
     Earthquake("Kamchatka 1952", Dec(9, 0), Num(500), Zero(1)) >>

\* the largest catalogs queried
MaxImpactRecords == 6
MaxEarthquakeRecords == 9

\* records clustered in one energy decade around 20 Mt, two records of the
\* decade below, and a close pair around 75 Mt in different decades
ClusteredImpactPool ==
  << Impact("Cluster 15 Mt", Num(15), Dec(3, -1)),
     Impact("Cluster 9.5 Mt", Dec(95, -1), Dec(3, -1)),
     Impact("Cluster 25 Mt", Num(25), Dec(3, -1)),
     Impact("Cluster 14 Mt", Num(14), Dec(3, -1)),
     Impact("Cluster 26 Mt", Num(26), Dec(3, -1)),
     Impact("Cluster 13 Mt", Num(13), Dec(3, -1)),
     Impact("Cluster 9 Mt", Num(9), Dec(3, -1)),
     Impact("Cluster 75 Mt", Num(75), Dec(3, -1)),
     Impact("Cluster 110 Mt", Num(110), Dec(3, -1)),
     Impact("Cluster 5000 Mt", Num(5000), Num(30)) >>

\* earthquakes of 20 Mt clustered within half a magnitude of 8.2, one of
\* magnitude 7.6, and a close pair around magnitude 7 of 0.5 Mt
ClusteredEarthquakePool ==
  << Earthquake("Cluster M8.2", Dec(82, -1), Num(20), Num(1000)),
     Earthquake("Cluster M7.6", Dec(76, -1), Num(20), Num(1000)),
     Earthquake("Cluster M8.1", Dec(81, -1), Num(20), Num(1000)),
     Earthquake("Cluster M8.05", Dec(805, -2), Num(20), Num(1000)),
     Earthquake("Cluster M8.0", Dec(80, -1), Num(20), Num(1000)),
     Earthquake("Cluster M7.9", Dec(79, -1), Num(20), Num(1000)),
     Earthquake("Cluster M7.85", Dec(785, -2), Num(20), Num(1000)),
     Earthquake("Cluster M7.8", Dec(78, -1), Num(20), Num(1000)),
     Earthquake("Cluster M7.75", Dec(775, -2), Num(20), Num(1000)),
     Earthquake("Cluster M6.8", Dec(68, -1), Dec(5, -1), Num(5000)),
     Earthquake("Cluster M7.4", Dec(74, -1), Dec(5, -1), Num(200)),
     Earthquake("Cluster M5.0", Num(5), Dec(1, -3), Zero(1)) >>

MaxClusteredImpactRecords == 9
MaxClusteredEarthquakeRecords == 11

ImpactCatalogs ==
  {SubSeq(ImpactPool, 1, n) : n \in 0..MaxImpactRecords}
    \cup {SubSeq(ClusteredImpactPool, 1, n) : n \in 0..MaxClusteredImpactRecords}
EarthquakeCatalogs ==
  {SubSeq(EarthquakePool, 1, n) : n \in 0..MaxEarthquakeRecords}
    \cup {SubSeq(ClusteredEarthquakePool, 1, n) :
            n \in 0..MaxClusteredEarthquakeRecords}

NotReturned == [threw |-> FALSE, value |-> "pending"]

DartDeflectionArgs ==
  [asteroidVelocityKmS : Velocities, asteroidDiameterM : Diameters,
   asteroidDensityKgM3 : Densities, leadTimeYears : LeadTimes,
   dartMassKg : DartMasses, dartVelocityKmS : DartVelocities,
   momentumEnhancement : Enhancements]

ImpactMetricsArgs ==
  [diameterMeters : Diameters, velocityKmS : Velocities,
   densityKgM3 : Densities, targetPopulation : Populations]

\* arguments of the coordinate conversions
Latitudes == {Num(-100), Num(-90), Num(-89), Num(-45), Zero(1), Num(30),
              Num(89), Num(90), Num(100)}
Longitudes == {Num(-540), Num(-180), Num(-179), Num(-90), Zero(1), Num(45),
               Num(90), Num(180), Num(181), Num(405)}
Radii == {Num(1), Num(2), Dec(201, -2)}
Coordinates == {Num(-3), Num(-1), Zero(1), Dec(5, -1), Num(2)}

LatLonToVector3Args == [lat : Latitudes, lon : Longitudes, radius : Radii]

Vector3ToLatLonArgs ==
  [x : Coordinates, y : Coordinates, z : Coordinates, radius : Radii]

ClosestImpactArgs ==
  [tntMegatons : TargetEnergies, craterDiameterKm : TargetCraters,
   dartStage : DartStages]

ClosestEarthquakeArgs ==
  [seismicEquivalentMagnitude : TargetMagnitudes, tntMegatons : TargetEnergies,
   dartStage : DartStages]

\* the modal as its useState initialisers leave it, closed
ModalInitial ==
  /\ isOpen = FALSE
  /\ dartStage = "idle"
  /\ impactTrajComplete = FALSE
  /\ dartResult = Null
  /\ geminiAnalysis = Null
  /\ loading = TRUE
  /\ panelMounted = FALSE
  /\ requestCount = 0
  /\ pending = {}

Init ==
  /\ pc = "ready"
  /\ ret = NotReturned
  /\ ModalInitial
  /\ \/ /\ fn = "calculateDartDeflection" /\ args \in DartDeflectionArgs
        /\ historicalImpacts = SubSeq(ImpactPool, 1, MaxImpactRecords)
        /\ majorEarthquakes = SubSeq(EarthquakePool, 1, MaxEarthquakeRecords)
     \/ /\ fn = "calculateImpactMetrics" /\ args \in ImpactMetricsArgs
        /\ historicalImpacts = SubSeq(ImpactPool, 1, MaxImpactRecords)
        /\ majorEarthquakes = SubSeq(EarthquakePool, 1, MaxEarthquakeRecords)
     \/ /\ fn = "latLonToVector3" /\ args \in LatLonToVector3Args
        /\ historicalImpacts = SubSeq(ImpactPool, 1, MaxImpactRecords)
        /\ majorEarthquakes = SubSeq(EarthquakePool, 1, MaxEarthquakeRecords)
     \/ /\ fn = "vector3ToLatLon" /\ args \in Vector3ToLatLonArgs
        /\ historicalImpacts = SubSeq(ImpactPool, 1, MaxImpactRecords)
        /\ majorEarthquakes = SubSeq(EarthquakePool, 1, MaxEarthquakeRecords)
     \/ /\ fn = "closestImpact" /\ args \in ClosestImpactArgs
        /\ historicalImpacts \in ImpactCatalogs
        /\ majorEarthquakes = SubSeq(EarthquakePool, 1, MaxEarthquakeRecords)
     \/ /\ fn = "closestEarthquake" /\ args \in ClosestEarthquakeArgs
        /\ historicalImpacts = SubSeq(ImpactPool, 1, MaxImpactRecords)
        /\ majorEarthquakes \in EarthquakeCatalogs

CallDartDeflection ==
  /\ pc = "ready"
  /\ fn = "calculateDartDeflection"
  /\ ret' = Returned(calculateDartDeflection(
               args.asteroidVelocityKmS, args.asteroidDiameterM,
               args.asteroidDensityKgM3, args.leadTimeYears, args.dartMassKg,
               args.dartVelocityKmS, args.momentumEnhancement))
  /\ pc' = "done"
  /\ UNCHANGED <<fn, args, historicalImpacts, majorEarthquakes>>
  /\ UNCHANGED modalVars

CallImpactMetrics ==
  /\ pc = "ready"
  /\ fn = "calculateImpactMetrics"
  /\ ret' = Returned(calculateImpactMetrics(
               args.diameterMeters, args.velocityKmS, args.densityKgM3,
               args.targetPopulation))
  /\ pc' = "done"
  /\ UNCHANGED <<fn, args, historicalImpacts, majorEarthquakes>>
  /\ UNCHANGED modalVars

CallLatLonToVector3 ==
  /\ pc = "ready"
  /\ fn = "latLonToVector3"
  /\ ret' = Returned(latLonToVector3(args.lat, args.lon, args.radius))
  /\ pc' = "done"
  /\ UNCHANGED <<fn, args, historicalImpacts, majorEarthquakes>>
  /\ UNCHANGED modalVars

CallVector3ToLatLon ==
  /\ pc = "ready"
  /\ fn = "vector3ToLatLon"
  /\ ret' = Returned(vector3ToLatLon(args.x, args.y, args.z, args.radius))
  /\ pc' = "done"
  /\ UNCHANGED <<fn, args, historicalImpacts, majorEarthquakes>>
  /\ UNCHANGED modalVars

CallClosestImpactSortingInPlace ==
  /\ pc = "ready"
  /\ fn = "closestImpact"
  /\ ret' = closestImpact(args.tntMegatons, args.craterDiameterKm,
                          args.dartStage, historicalImpacts)
  /\ pc' = "done"
  /\ historicalImpacts' =
       SortByScore(ScoredImpacts(historicalImpacts, args.tntMegatons,
                                 args.craterDiameterKm))
  /\ UNCHANGED <<fn, args, majorEarthquakes>>
  /\ UNCHANGED modalVars

CallClosestImpact ==
  /\ pc = "ready"
  /\ fn = "closestImpact"
  /\ ret' = closestImpact(args.tntMegatons, args.craterDiameterKm,
                          args.dartStage, historicalImpacts)
  /\ pc' = "done"
  /\ UNCHANGED <<fn, args, historicalImpacts, majorEarthquakes>>
  /\ UNCHANGED modalVars

CallClosestEarthquakeReusingLastResult ==
  /\ pc = "ready"
  /\ fn = "closestEarthquake"
  /\ ret' = IF "after" \in DOMAIN ret /\ ret.after.fn = "closestEarthquake"
            THEN ret.after.ret
            ELSE closestEarthquake(args.seismicEquivalentMagnitude,
                                   args.tntMegatons, args.dartStage,
                                   majorEarthquakes)
  /\ pc' = "done"
  /\ UNCHANGED <<fn, args, historicalImpacts, majorEarthquakes>>
  /\ UNCHANGED modalVars

CallClosestEarthquake ==
  /\ pc = "ready"
  /\ fn = "closestEarthquake"
  /\ ret' = closestEarthquake(args.seismicEquivalentMagnitude, args.tntMegatons,
                              args.dartStage, majorEarthquakes)
  /\ pc' = "done"
  /\ UNCHANGED <<fn, args, historicalImpacts, majorEarthquakes>>
  /\ UNCHANGED modalVars

Next ==
  \/ CallDartDeflection
  \/ CallImpactMetrics
  \/ CallLatLonToVector3
  \/ CallVector3ToLatLon
  \/ CallClosestImpact
  \/ CallClosestEarthquake

Spec == Init /\ [][Next]_vars

---------------------------------------------------------------------------
(* A session: calls of the six functions one after another, in any order *)

\* the calls of a session
SessionCalls ==
  {[fn |-> "calculateDartDeflection", args |-> a] :
     a \in [asteroidVelocityKmS : {Num(12), Num(20)},
            asteroidDiameterM : {Num(30), Num(300)},
            asteroidDensityKgM3 : {Num(3000)}, leadTimeYears : {Num(1), Num(5)},
            dartMassKg : {Num(570)}, dartVelocityKmS : {Dec(66, -1)},
            momentumEnhancement : {Dec(36, -1)}]}
    \cup {[fn |-> "calculateImpactMetrics", args |-> a] :
            a \in [diameterMeters : {Num(30), Num(300)},
                   velocityKmS : {Num(12), Num(20)}, densityKgM3 : {Num(3000)},
                   targetPopulation : {Undefined, Num(1000)}]}
    \cup {[fn |-> "latLonToVector3", args |-> a] :
            a \in [lat : {Zero(1), Num(30)}, lon : {Zero(1), Num(45)},
                   radius : {Num(2)}]}
    \cup {[fn |-> "vector3ToLatLon", args |-> a] :
            a \in [x : {Dec(5, -1), Num(2)}, y : {Zero(1), Dec(5, -1)},
                   z : {Num(2)}, radius : {Num(2)}]}
    \cup {[fn |-> "closestImpact", args |-> a] :
            a \in [tntMegatons : {Num(20), Dec(7509, -2)},
                   craterDiameterKm : {Dec(3, -1)},
                   dartStage : {"idle", "complete"}]}
    \cup {[fn |-> "closestEarthquake", args |-> a] :
            a \in [seismicEquivalentMagnitude : {Dec(67, -1), Dec(88, -1)},
                   tntMegatons : {Num(20)}, dartStage : {"idle", "complete"}]}

\* a session starts with either catalog in file order or clustered
SessionInit ==
  /\ pc = "ready"
  /\ ret = NotReturned
  /\ ModalInitial
  /\ \E c \in SessionCalls : fn = c.fn /\ args = c.args
  /\ historicalImpacts \in
       {SubSeq(ImpactPool, 1, MaxImpactRecords),
        SubSeq(ClusteredImpactPool, 1, MaxClusteredImpactRecords)}
  /\ majorEarthquakes \in
       {SubSeq(EarthquakePool, 1, MaxEarthquakeRecords),
        SubSeq(ClusteredEarthquakePool, 1, MaxClusteredEarthquakeRecords)}

\* no result yet, the caller holding the call it made before and its result
PendingAfter(lastFn, lastArgs, lastRet) ==
  [threw |-> FALSE, value |-> "pending",
   after |-> [fn |-> lastFn, args |-> lastArgs, ret |-> lastRet]]

\* the caller goes on to its next call
NextCall ==
  /\ pc = "done"
  /\ \E c \in SessionCalls : fn' = c.fn /\ args' = c.args
  /\ pc' = "ready"
  /\ ret' = PendingAfter(fn, args, ret)
  /\ UNCHANGED <<historicalImpacts, majorEarthquakes>>
  /\ UNCHANGED modalVars

SessionNext ==
  \/ NextCall
  \/ CallDartDeflection
  \/ CallImpactMetrics
  \/ CallLatLonToVector3
  \/ CallVector3ToLatLon
  \/ CallClosestImpact
  \/ CallClosestEarthquake

SessionSpec == SessionInit /\ [][SessionNext]_vars

---------------------------------------------------------------------------
(* ImpactStatsModal: the DART stage and the analysis fetches *)

\* the asteroid of the modal: estDiameterMeters.avg and the parsed velocity
ModalProps ==
  [avgDiameter : {Num(30), Num(40), Num(100), Num(101), Num(300), Num(500),
                  Num(501), Num(1000), Num(1001)},
   velocity : {Num(12), Num(20)}]

\* the most fetches issued in one behaviour
MaxRequests == 4

ModalInit ==
  /\ pc = "mounted"
  /\ fn = "ImpactStatsModal"
  /\ args \in ModalProps
  /\ ret = NotReturned
  /\ historicalImpacts = SubSeq(ImpactPool, 1, MaxImpactRecords)
  /\ majorEarthquakes = SubSeq(EarthquakePool, 1, MaxEarthquakeRecords)
  /\ ModalInitial

\* fetchGeminiAnalysis up to its await: the state it resets and the request
\* it sends; dartSuccess is whether options?.dartSuccess is truthy
fetchGeminiAnalysis(dartSuccess) ==
  /\ loading' = TRUE
  /\ geminiAnalysis' = Null
  /\ requestCount' = requestCount + 1
  /\ pending' = pending \cup {[request |-> requestCount + 1,
                               dartSuccess |-> dartSuccess]}

\* isOpen becomes true: the content is rendered and the open effect runs
OpenModal ==
  /\ ~isOpen
  /\ requestCount < MaxRequests
  /\ isOpen' = TRUE
  /\ panelMounted' = TRUE
  /\ dartStage' = "idle"
  /\ impactTrajComplete' = FALSE
  /\ fetchGeminiAnalysis(FALSE)
  /\ UNCHANGED dartResult
  /\ UNCHANGED engineVars

CloseModalResettingStage ==
  /\ isOpen
  /\ isOpen' = FALSE
  /\ dartStage' = "idle"
  /\ impactTrajComplete' = FALSE
  /\ UNCHANGED <<dartResult, geminiAnalysis, loading, panelMounted,
                 requestCount, pending>>
  /\ UNCHANGED engineVars

\* onClose: isOpen becomes false; the content stays in the tree while its
\* exit animation runs
CloseModal ==
  /\ isOpen
  /\ isOpen' = FALSE
  /\ UNCHANGED <<dartStage, impactTrajComplete, dartResult, geminiAnalysis,
                 loading, panelMounted, requestCount, pending>>
  /\ UNCHANGED engineVars

\* the exit animation ends and AnimatePresence removes the content
ExitComplete ==
  /\ ~isOpen
  /\ panelMounted
  /\ panelMounted' = FALSE
  /\ UNCHANGED <<isOpen, dartStage, impactTrajComplete, dartResult,
                 geminiAnalysis, loading, requestCount, pending>>
  /\ UNCHANGED engineVars

\* ImpactTrajectory, shown while dartStage is idle, reaches the end of its
\* animation and calls onComplete
HandleImpactTrajectoryComplete ==
  /\ panelMounted
  /\ dartStage = "idle"
  /\ ~impactTrajComplete
  /\ impactTrajComplete' = TRUE
  /\ UNCHANGED <<isOpen, dartStage, dartResult, geminiAnalysis, loading,
                 panelMounted, requestCount, pending>>
  /\ UNCHANGED engineVars

HandleDartClickOneYearLead ==
  /\ panelMounted
  /\ impactTrajComplete
  /\ dartStage = "idle"
  /\ dartStage' = "animating"
  /\ dartResult' = calculateDartDeflection(args.velocity, args.avgDiameter,
                                           Num(3000), Num(1), Num(570),
                                           Dec(66, -1), Dec(36, -1))
  /\ UNCHANGED <<isOpen, impactTrajComplete, geminiAnalysis, loading,
                 panelMounted, requestCount, pending>>
  /\ UNCHANGED engineVars

\* the DART button, rendered when impactTrajComplete && dartStage === "idle"
HandleDartClick ==
  /\ panelMounted
  /\ impactTrajComplete
  /\ dartStage = "idle"
  /\ dartStage' = "animating"
  /\ dartResult' = calculateDartDeflection(args.velocity, args.avgDiameter,
                                           Num(3000), Num(5), Num(570),
                                           Dec(66, -1), Dec(36, -1))
  /\ UNCHANGED <<isOpen, impactTrajComplete, geminiAnalysis, loading,
                 panelMounted, requestCount, pending>>
  /\ UNCHANGED engineVars

\* DartTrajectory, shown while dartStage is not idle, reaches the end of its
\* animation and calls onComplete
HandleDartComplete ==
  /\ panelMounted
  /\ dartStage = "animating"
  /\ requestCount < MaxRequests
  /\ dartStage' = "complete"
  /\ fetchGeminiAnalysis(IF dartResult = Null THEN FALSE ELSE dartResult.success)
  /\ UNCHANGED <<isOpen, impactTrajComplete, dartResult, panelMounted>>
  /\ UNCHANGED engineVars

\* a fetch settles, in any order: setGeminiAnalysis with the analysis of
\* that request, from the response or from the catch, then setLoading(false)
FetchSettles ==
  /\ \E r \in pending :
       /\ geminiAnalysis' = [request |-> r.request, dartSuccess |-> r.dartSuccess]
       /\ loading' = FALSE
       /\ pending' = pending \ {r}
  /\ UNCHANGED <<isOpen, dartStage, impactTrajComplete, dartResult,
                 panelMounted, requestCount>>
  /\ UNCHANGED engineVars

ModalNext ==
  \/ OpenModal
  \/ CloseModal
  \/ ExitComplete
  \/ HandleImpactTrajectoryComplete
  \/ HandleDartClick
  \/ HandleDartComplete
  \/ FetchSettles

ModalSpec == ModalInit /\ [][ModalNext]_vars

---------------------------------------------------------------------------
(* Properties of calculateDartDeflection *)

Deflected == pc = "done" /\ fn = "calculateDartDeflection"
Outcome == ret.value

\* the safety threshold EarthRadiusKm + 10,000 km = 16371 km
SafetyThresholdKm == Num(16371)
ClearsThreshold == FGt(Outcome.missDistanceKm, SafetyThresholdKm)
ClearsTwiceThreshold == FGt(Outcome.missDistanceKm, Num(32742))

InVeryLargeTier == FGt(args.asteroidDiameterM, Num(1000))
InLargeTier == FGt(args.asteroidDiameterM, Num(500)) /\ FLe(args.asteroidDiameterM, Num(1000))
InMediumTier == FGt(args.asteroidDiameterM, Num(100)) /\ FLe(args.asteroidDiameterM, Num(500))
InSmallTier == FLe(args.asteroidDiameterM, Num(100))

\* C1: every call with diameter > 1000 m returns success = false with
\* confidence 5, whatever the other arguments and the miss distance are.
C1_VeryLargeAlwaysFails ==
  (Deflected /\ InVeryLargeTier) =>
    /\ ~ret.threw
    /\ Outcome.success = FALSE
    /\ Outcome.confidence = 5

C1_Witness ==
  /\ Deflected /\ InVeryLargeTier /\ ClearsThreshold
  /\ FGe(args.leadTimeYears, Num(10))
  /\ Outcome.success = FALSE /\ Outcome.confidence = 5

\* C2: in the 500-1000 m tier the outcome is success with confidence 60
\* exactly when leadTimeYears >= 10 and the miss distance exceeds the
\* threshold; every other call of the tier fails with confidence 30.
C2_LargeTier ==
  (Deflected /\ InLargeTier) =>
    IF FGe(args.leadTimeYears, Num(10)) /\ ClearsThreshold
    THEN Outcome.success = TRUE /\ Outcome.confidence = 60
    ELSE Outcome.success = FALSE /\ Outcome.confidence = 30

C2_Witness ==
  /\ Deflected /\ InLargeTier /\ ClearsThreshold
  /\ FLt(args.leadTimeYears, Num(10))
  /\ Outcome.success = FALSE /\ Outcome.confidence = 30

\* C3: in the 100-500 m tier there are exactly three outcomes: threshold
\* cleared gives success at 85; not cleared with lead time < 2 gives failure
\* at 40; not cleared with lead time >= 2 gives success at 70.
C3_MediumTier ==
  (Deflected /\ InMediumTier) =>
    IF ClearsThreshold
    THEN Outcome.success = TRUE /\ Outcome.confidence = 85
    ELSE IF FLt(args.leadTimeYears, Num(2))
    THEN Outcome.success = FALSE /\ Outcome.confidence = 40
    ELSE /\ FGe(args.leadTimeYears, Num(2))
         /\ Outcome.success = TRUE /\ Outcome.confidence = 70

C3_Witness ==
  /\ Deflected /\ InMediumTier /\ ~ClearsThreshold
  /\ FEq(args.leadTimeYears, Num(2))
  /\ Outcome.success = TRUE /\ Outcome.confidence = 70

\* C4: every call with diameter <= 100 m succeeds, with confidence 95 when
\* the miss distance exceeds twice the threshold and confidence 80 otherwise.
C4_SmallTier ==
  (Deflected /\ InSmallTier) =>
    /\ Outcome.success = TRUE
    /\ Outcome.confidence = (IF ClearsTwiceThreshold THEN 95 ELSE 80)

C4_Witness ==
  /\ Deflected /\ InSmallTier
  /\ ClearsThreshold /\ ~ClearsTwiceThreshold
  /\ Outcome.success = TRUE /\ Outcome.confidence = 80

\* C5 as stated: success = true implies that the miss distance exceeds the
\* safety threshold of 16371 km.
C5_SuccessImpliesThreshold ==
  (Deflected /\ Outcome.success = TRUE) => ClearsThreshold

\* C5 as amended: success = true implies that the miss distance exceeds
\* 16371 km in every branch but the two that grant success without the
\* threshold test: the marginal success of the 100-500 m tier (confidence 70)
\* and the confidence-80 branch of the <= 100 m tier.
C5_SuccessImpliesThresholdExceptQuirks ==
  (Deflected /\ Outcome.success = TRUE /\ Outcome.confidence \notin {70, 80})
    => ClearsThreshold

C5_Witness ==
  /\ Deflected /\ Outcome.success = TRUE /\ Outcome.confidence = 85
  /\ ClearsThreshold /\ ~ClearsTwiceThreshold

\* the eight branches: confidence, success, reason
BranchTable ==
  { <<5, FALSE, ReasonTooLarge>>, <<60, TRUE, ReasonLargeSuccess>>,
    <<30, FALSE, ReasonLargeFail>>, <<85, TRUE, ReasonMediumSuccess>>,
    <<40, FALSE, ReasonMediumFail>>, <<70, TRUE, ReasonMarginal>>,
    <<95, TRUE, ReasonSmallHigh>>, <<80, TRUE, ReasonSmall>> }

\* C6: confidence is one of 5, 30, 40, 60, 70, 80, 85, 95; each value belongs
\* to one branch of one tier and carries that branch's reason string; success
\* is true exactly for 60, 70, 80, 85, 95.
C6_ConfidenceFixedByBranch ==
  Deflected =>
    /\ <<Outcome.confidence, Outcome.success, Outcome.reason>> \in BranchTable
    /\ Outcome.confidence \in 0..100
    /\ Outcome.success = (Outcome.confidence \in {60, 70, 80, 85, 95})
    /\ Outcome.confidence = 5 => InVeryLargeTier
    /\ Outcome.confidence \in {30, 60} => InLargeTier
    /\ Outcome.confidence \in {40, 70, 85} => InMediumTier
    /\ Outcome.confidence \in {80, 95} => InSmallTier

C6_Witness ==
  /\ Deflected /\ InMediumTier
  /\ Outcome.confidence = 70 /\ Outcome.reason = ReasonMarginal

\* C8: a call with negative leadTimeYears, or non-positive diameter or
\* density, reports a DomainError and is never classified as a success.
C8_DomainErrorOnInvalidInput ==
  (/\ Deflected
   /\ \/ FLt(args.leadTimeYears, Zero(1))
      \/ FLe(args.asteroidDiameterM, Zero(1))
      \/ FLe(args.asteroidDensityKgM3, Zero(1)))
  => (ret.threw /\ ret.value = "DomainError")

---------------------------------------------------------------------------
(* Properties of calculateImpactMetrics *)

Measured == pc = "done" /\ fn = "calculateImpactMetrics"

ValidAsteroid ==
  /\ FGt(args.diameterMeters, Zero(1))
  /\ FGt(args.velocityKmS, Zero(1))
  /\ FGt(args.densityKgM3, Zero(1))

\* C7: a call with diameterMeters <= 0, velocityKmS <= 0 or densityKgM3 <= 0
\* reports a DomainError and returns no metric.
C7_DomainErrorOnNonPositiveInput ==
  (Measured /\ ~ValidAsteroid) => (ret.threw /\ ret.value = "DomainError")

\* the casualty figure the formula gives for the call's population
ExpectedCasualties ==
  casualtyEstimate(args.targetPopulation,
                   destructionRadiusKm(craterDiameterKm(args.diameterMeters,
                                                        args.densityKgM3)))

\* C10: for a valid asteroid, approxCasualties is null exactly when no
\* targetPopulation was supplied; for every supplied population, 0 included,
\* it is floor(targetPopulation * pi * destructionRadiusKm^2 / 100 * 0.5)
\* and not NaN.
C10_CasualtiesNullIffNoPopulation ==
  (Measured /\ ValidAsteroid) =>
    /\ (Outcome.approxCasualties = Null) <=> (args.targetPopulation = Undefined)
    /\ args.targetPopulation # Undefined =>
         /\ Outcome.approxCasualties = ExpectedCasualties
         /\ ~IsNaN(Outcome.approxCasualties)

\* a <= x <= b
Within(x, a, b) == FGe(x, a) /\ FLe(x, b)

\* the scale example: diameter 1000 m, velocity 20 km/s, density 3000 kg/m3
ScaleExample ==
  /\ Measured
  /\ args.diameterMeters = Num(1000)
  /\ args.velocityKmS = Num(20)
  /\ args.densityKgM3 = Num(3000)

\* C11 as stated: the scale example returns a kinetic energy of about
\* 3.14e17 J, tntMegatons of about 75.1 and craterDiameterKm = 1.8.
C11_ScaleExampleAsDocumented ==
  ScaleExample =>
    /\ Within(Outcome.kineticEnergyJ, Dec(3135, 14), Dec(3145, 14))
    /\ Within(Outcome.tntMegatons, Dec(7505, -2), Dec(7515, -2))
    /\ Outcome.craterDiameterKm = Dec(18, -1)

\* C11 as amended: the scale example returns a kinetic energy of about
\* 3.14e20 J, tntMegatons of about 75086 and craterDiameterKm = 1.8.
C11_ScaleExample ==
  ScaleExample =>
    /\ Within(Outcome.kineticEnergyJ, Dec(3135, 17), Dec(3145, 17))
    /\ Within(Outcome.tntMegatons, Num(75080), Num(75090))
    /\ Outcome.craterDiameterKm = Dec(18, -1)

C11_Witness ==
  /\ ScaleExample
  /\ FGt(Outcome.tntMegatons, Num(75000))
  /\ Outcome.craterDiameterKm = Dec(18, -1)

\* a finite number with at most n decimal places
IsRoundedTo(a, n) == a.k = "fin" /\ IsInteger([a EXCEPT !.e = a.e + n])

MetricsAt(diameterMeters, velocityKmS) ==
  calculateImpactMetrics(diameterMeters, velocityKmS, args.densityKgM3,
                         args.targetPopulation)

\* C13 as stated: for a valid call, every larger diameter (velocity and
\* density fixed) and every larger velocity (diameter and density fixed)
\* returns a strictly larger kineticEnergyJ and a strictly larger tntMegatons.
C13_EnergyStrictlyIncreasing ==
  (Measured /\ ValidAsteroid) =>
    /\ \A d2 \in Diameters :
         FLt(args.diameterMeters, d2) =>
           /\ FLt(Outcome.kineticEnergyJ, MetricsAt(d2, args.velocityKmS).kineticEnergyJ)
           /\ FLt(Outcome.tntMegatons, MetricsAt(d2, args.velocityKmS).tntMegatons)
    /\ \A v2 \in Velocities :
         FLt(args.velocityKmS, v2) =>
           /\ FLt(Outcome.kineticEnergyJ, MetricsAt(args.diameterMeters, v2).kineticEnergyJ)
           /\ FLt(Outcome.tntMegatons, MetricsAt(args.diameterMeters, v2).tntMegatons)

\* C13 as amended: for a valid call, every larger diameter and every larger
\* velocity returns a strictly larger kineticEnergyJ and a tntMegatons that
\* is not smaller (it is equal when both round to the same 2 decimals).
C13_EnergyIncreasingTntNotDecreasing ==
  (Measured /\ ValidAsteroid) =>
    /\ \A d2 \in Diameters :
         FLt(args.diameterMeters, d2) =>
           /\ FLt(Outcome.kineticEnergyJ, MetricsAt(d2, args.velocityKmS).kineticEnergyJ)
           /\ FLe(Outcome.tntMegatons, MetricsAt(d2, args.velocityKmS).tntMegatons)
    /\ \A v2 \in Velocities :
         FLt(args.velocityKmS, v2) =>
           /\ FLt(Outcome.kineticEnergyJ, MetricsAt(args.diameterMeters, v2).kineticEnergyJ)
           /\ FLe(Outcome.tntMegatons, MetricsAt(args.diameterMeters, v2).tntMegatons)

\* a larger diameter with more energy and the same tntMegatons
C13_Witness ==
  /\ Measured /\ ValidAsteroid
  /\ \E d2 \in Diameters :
       /\ FLt(args.diameterMeters, d2)
       /\ FLt(Outcome.kineticEnergyJ, MetricsAt(d2, args.velocityKmS).kineticEnergyJ)
       /\ FEq(Outcome.tntMegatons, MetricsAt(d2, args.velocityKmS).tntMegatons)
  /\ \E v2 \in Velocities :
       /\ FLt(args.velocityKmS, v2)
       /\ FLt(Outcome.kineticEnergyJ, MetricsAt(args.diameterMeters, v2).kineticEnergyJ)

\* C14 as stated: for a valid call, every larger diameter (velocity and
\* density fixed) returns a strictly larger craterDiameterKm.
C14_CraterStrictlyIncreasing ==
  (Measured /\ ValidAsteroid) =>
    \A d2 \in Diameters :
      FLt(args.diameterMeters, d2) =>
        FLt(Outcome.craterDiameterKm, MetricsAt(d2, args.velocityKmS).craterDiameterKm)

\* C14 as amended: for a valid call, every larger diameter returns a
\* craterDiameterKm that is not smaller (equal when both round to the same
\* 2 decimals); the crater before rounding is strictly larger.
C14_CraterNotDecreasing ==
  (Measured /\ ValidAsteroid) =>
    \A d2 \in Diameters :
      FLt(args.diameterMeters, d2) =>
        /\ FLe(Outcome.craterDiameterKm, MetricsAt(d2, args.velocityKmS).craterDiameterKm)
        /\ FLt(craterDiameterKm(args.diameterMeters, args.densityKgM3),
               craterDiameterKm(d2, args.densityKgM3))

\* 100 m and 101 m return the same crater, 0.30 km
C14_Witness ==
  /\ Measured /\ ValidAsteroid
  /\ args.diameterMeters = Num(100)
  /\ Outcome.craterDiameterKm = Dec(30, -2)
  /\ MetricsAt(Num(101), args.velocityKmS).craterDiameterKm = Dec(30, -2)

\* the largest distance between round2(1.5 * c) and 1.5 * round2(c)
RoundingSlackKm == Dec(125, -4)

\* C15: for a valid call, the returned destructionRadiusKm is 1.5 times the
\* crater diameter rounded to 2 decimals, it differs from 1.5 times the
\* returned craterDiameterKm by no more than the rounding of the two fields,
\* and it is not smaller than the returned craterDiameterKm.
C15_DestructionIsCraterTimesOneAndAHalf ==
  (Measured /\ ValidAsteroid) =>
    /\ Outcome.destructionRadiusKm =
         ToFixed2(FMul(craterDiameterKm(args.diameterMeters, args.densityKgM3),
                       Dec(15, -1)))
    /\ FLe(FAbs(FSub(Outcome.destructionRadiusKm,
                     FMul(Outcome.craterDiameterKm, Dec(15, -1)))),
           RoundingSlackKm)
    /\ FGe(Outcome.destructionRadiusKm, Outcome.craterDiameterKm)

\* a call whose two rounded fields are not exactly in the ratio 1.5
C15_Witness ==
  /\ Measured /\ ValidAsteroid
  /\ FGt(Outcome.craterDiameterKm, Zero(1))
  /\ FGt(Outcome.destructionRadiusKm, Outcome.craterDiameterKm)
  /\ ~FEq(Outcome.destructionRadiusKm,
          FMul(Outcome.craterDiameterKm, Dec(15, -1)))

---------------------------------------------------------------------------
(* Properties of the coordinate conversions *)

Converted == pc = "done" /\ fn = "latLonToVector3"
Located == pc = "done" /\ fn = "vector3ToLatLon"

\* the distance between two angles in degrees, around the circle
AngleDistance(a, b) ==
  MathMin(FAbs(FSub(a, b)), FAbs(FSub(Num(360), FAbs(FSub(a, b)))))

AngleToleranceDeg == Dec(1, -2)
PointTolerance == Dec(1, -3)

\* the point returned by the call, converted back
RoundTrip == vector3ToLatLon(Outcome[1], Outcome[2], Outcome[3], args.radius)

InRoundTripDomain ==
  /\ Within(args.lat, Num(-89), Num(89))
  /\ FGt(args.lon, Num(-180)) /\ FLe(args.lon, Num(180))

\* C16: for lat in [-89, 89] and lon in (-180, 180], converting the point
\* returned by latLonToVector3 back with vector3ToLatLon recovers the
\* latitude and the longitude within tolerance.
C16_RoundTripRecoversLatLon ==
  (Converted /\ InRoundTripDomain) =>
    /\ FLe(FAbs(FSub(RoundTrip.lat, args.lat)), AngleToleranceDeg)
    /\ FLe(AngleDistance(RoundTrip.lon, args.lon), AngleToleranceDeg)

\* two points that agree in every coordinate within tolerance
NearPoint(p, q) ==
  \A i \in 1..3 : FLe(FAbs(FSub(p[i], q[i])), PointTolerance)

\* lat clamped to [-90, 90]
ClampLatitude(lat) == MathMax(Num(-90), MathMin(Num(90), lat))

\* C17: latLonToVector3(lat, lon, r) is the point of the latitude clamped to
\* [-90, 90] and of the longitude shifted by any multiple of 360.
C17_InputNormalised ==
  Converted =>
    \A turns \in {-1, 0, 1} :
      NearPoint(Outcome,
                latLonToVector3(ClampLatitude(args.lat),
                                FAdd(args.lon, Num(360 * turns)), args.radius))

\* C18: vector3ToLatLon returns a latitude in [-90, 90] and a longitude in
\* [-180, 180], neither of them NaN, also for points with |y| > radius.
C18_GeoPointInRange ==
  Located =>
    /\ Within(Outcome.lat, Num(-90), Num(90))
    /\ Within(Outcome.lon, Num(-180), Num(180))

\* a point above the sphere, located at the north pole
C18_Witness ==
  /\ Located
  /\ FGt(args.y, args.radius)
  /\ FGt(Outcome.lat, Dec(8999, -2))
  /\ Within(Outcome.lon, Num(-180), Num(180))

---------------------------------------------------------------------------
(* Properties of the historical-analog matchers *)

MatchedImpact == pc = "done" /\ fn = "closestImpact"
MatchedEarthquake == pc = "done" /\ fn = "closestEarthquake"

\* the values that stand for "no match"
NoMatch == {Null, Undefined}

\* C9: a matcher queried against an empty catalog completes without throwing
\* and reports no match.
C9_EmptyCatalogReportsNoMatch ==
  /\ (MatchedImpact /\ Len(historicalImpacts) = 0)
       => (~ret.threw /\ ret.value \in NoMatch)
  /\ (MatchedEarthquake /\ Len(majorEarthquakes) = 0)
       => (~ret.threw /\ ret.value \in NoMatch)

\* a query that the dartStage and magnitude guards let through
ImpactQueried == MatchedImpact /\ args.dartStage # "complete"
EarthquakeQueried ==
  /\ MatchedEarthquake
  /\ args.dartStage # "complete"
  /\ Truthy(args.seismicEquivalentMagnitude)

\* the catalogs with their scores, in catalog order and in ascending score
ImpactsScored ==
  ScoredImpacts(historicalImpacts, args.tntMegatons, args.craterDiameterKm)
EarthquakesScored ==
  ScoredEarthquakes(majorEarthquakes, args.seismicEquivalentMagnitude,
                    args.tntMegatons)
ImpactsSorted == SortByScore(ImpactsScored)
EarthquakesFiltered == Impactful(SortByScore(EarthquakesScored))

\* the record of lowest score among the indices S of scored, the earliest
\* of the catalog if several share it
LowestScored(scored, S) ==
  scored[CHOOSE i \in S :
           \A j \in S : \/ FLt(scored[i].score, scored[j].score)
                        \/ (FEq(scored[i].score, scored[j].score) /\ i <= j)]

ImpactfulIndices ==
  {i \in 1..Len(EarthquakesScored) : IsImpactful(EarthquakesScored[i])}

\* C19: over a non-empty catalog, when the lowest-scored impact has a score
\* below 0.1 it is the record returned, and when the lowest-scored of the
\* pre-filtered earthquakes has a score below 0.15 it is the record returned,
\* whatever other candidates exist.
C19_FastPathReturnsBest ==
  /\ (/\ ImpactQueried
      /\ Len(historicalImpacts) > 0
      /\ FLt(LowestScored(ImpactsScored, 1..Len(ImpactsScored)).score, Dec(1, -1)))
       => ret = Returned(LowestScored(ImpactsScored, 1..Len(ImpactsScored)))
  /\ (/\ EarthquakeQueried
      /\ ImpactfulIndices # {}
      /\ FLt(LowestScored(EarthquakesScored, ImpactfulIndices).score, Dec(15, -2)))
       => ret = Returned(LowestScored(EarthquakesScored, ImpactfulIndices))

\* the fast path taken although a record of another energy decade with a
\* score below 0.5 follows the best match
C19_Witness ==
  /\ ImpactQueried
  /\ Len(historicalImpacts) > 1
  /\ FLt(ImpactsSorted[1].score, Dec(1, -1))
  /\ ret = Returned(ImpactsSorted[1])
  /\ FLt(ImpactsSorted[2].score, Dec(5, -1))
  /\ FGe(FAbs(FSub(EnergyDecade(ImpactsSorted[1].energy_mt),
                   EnergyDecade(ImpactsSorted[2].energy_mt))), Num(1))

\* the least element of a non-empty set of indices
First(S) == CHOOSE i \in S : \A j \in S : i <= j

\* the indices among the n candidates after the best that qualify
DiverseImpacts(sorted, n) ==
  {i \in 2..(IF Len(sorted) < n + 1 THEN Len(sorted) ELSE n + 1) :
     /\ FGe(FAbs(FSub(EnergyDecade(sorted[1].energy_mt),
                      EnergyDecade(sorted[i].energy_mt))), Num(1))
     /\ FLt(sorted[i].score, Dec(5, -1))}

DiverseEarthquakes(filtered, n) ==
  {i \in 2..(IF Len(filtered) < n + 1 THEN Len(filtered) ELSE n + 1) :
     /\ FGe(FAbs(FSub(filtered[i].magnitude, filtered[1].magnitude)), Dec(5, -1))
     /\ FLt(filtered[i].score, Dec(4, -1))}

\* the first qualifying record among the n candidates after the best, or
\* the best
ExpectedImpact(sorted, n) ==
  IF DiverseImpacts(sorted, n) = {} THEN sorted[1]
  ELSE sorted[First(DiverseImpacts(sorted, n))]

ExpectedEarthquake(filtered, n) ==
  IF DiverseEarthquakes(filtered, n) = {} THEN filtered[1]
  ELSE filtered[First(DiverseEarthquakes(filtered, n))]

ImpactSlowPath ==
  /\ ImpactQueried
  /\ Len(historicalImpacts) > 0
  /\ ~FLt(ImpactsSorted[1].score, Dec(1, -1))

EarthquakeSlowPath ==
  /\ EarthquakeQueried
  /\ Len(EarthquakesFiltered) > 0
  /\ ~FLt(EarthquakesFiltered[1].score, Dec(15, -2))

\* C20 as stated: when the best score is not below the fast-path bound, the
\* matcher returns the first of the 5 candidates after the best (8 for
\* earthquakes) that differs by a decade (half a magnitude) and scores below
\* 0.5 (0.4), and the best match if none does.
C20_ScansFiveAndEight ==
  /\ ImpactSlowPath => ret = Returned(ExpectedImpact(ImpactsSorted, 5))
  /\ EarthquakeSlowPath
       => ret = Returned(ExpectedEarthquake(EarthquakesFiltered, 8))

\* C20 as amended: the same with the 4 candidates after the best for impacts
\* and the 7 candidates after the best for the pre-filtered earthquakes.
C20_ScansFourAndSeven ==
  /\ ImpactSlowPath => ret = Returned(ExpectedImpact(ImpactsSorted, 4))
  /\ EarthquakeSlowPath
       => ret = Returned(ExpectedEarthquake(EarthquakesFiltered, 7))

\* a diverse candidate returned in place of the best match
C20_Witness ==
  /\ ImpactSlowPath
  /\ DiverseImpacts(ImpactsSorted, 4) # {}
  /\ ret = Returned(ExpectedImpact(ImpactsSorted, 4))
  /\ ret.value # ImpactsSorted[1]

\* a returned earthquake record
EarthquakeReturned == ~ret.threw /\ "casualties" \in DOMAIN ret.value

\* C21: a query over a catalog holding a record with more than 100
\* casualties or a magnitude of at least 7.5 returns such a record, and a
\* query over a non-empty catalog holding none returns the lowest-scored
\* record of the whole catalog.
C21_PrefilterBeforeFallback ==
  /\ (EarthquakeQueried /\ ImpactfulIndices # {})
       => (EarthquakeReturned /\ IsImpactful(ret.value))
  /\ (EarthquakeQueried /\ ImpactfulIndices = {} /\ Len(majorEarthquakes) > 0)
       => ret = Returned(LowestScored(EarthquakesScored,
                                      1..Len(EarthquakesScored)))

\* a qualifying record returned although a record that does not qualify has
\* a strictly lower score
C21_Witness ==
  /\ EarthquakeQueried
  /\ EarthquakeReturned
  /\ IsImpactful(ret.value)
  /\ \E i \in 1..Len(EarthquakesScored) :
       /\ ~IsImpactful(EarthquakesScored[i])
       /\ FLt(EarthquakesScored[i].score, ret.value.score)

\* the fallback taken: a record that does not qualify returned
C21_FallbackWitness ==
  /\ EarthquakeQueried
  /\ EarthquakeReturned
  /\ ~IsImpactful(ret.value)

---------------------------------------------------------------------------
(* Further properties of calculateDartDeflection *)

DiameterIs(d) == Deflected /\ FEq(args.asteroidDiameterM, Num(d))

\* the tiers the diameter of the call falls in
TiersOfDiameter ==
  {t \in {"veryLarge", "large", "medium", "small"} :
     \/ t = "veryLarge" /\ InVeryLargeTier
     \/ t = "large" /\ InLargeTier
     \/ t = "medium" /\ InMediumTier
     \/ t = "small" /\ InSmallTier}

\* the tier whose rules produced the outcome
TierOfOutcome ==
  CASE Outcome.confidence = 5 -> "veryLarge"
    [] Outcome.confidence \in {30, 60} -> "large"
    [] Outcome.confidence \in {40, 70, 85} -> "medium"
    [] Outcome.confidence \in {80, 95} -> "small"

OutcomeAtLeadTime(lead) ==
  calculateDartDeflection(args.asteroidVelocityKmS, args.asteroidDiameterM,
                          args.asteroidDensityKgM3, lead, args.dartMassKg,
                          args.dartVelocityKmS, args.momentumEnhancement)

LongerLeadTimes ==
  {lead \in LeadTimes : FGe(lead, args.leadTimeYears)}

\* C29: for a call with lead time L1 >= 0 and every lead time L2 >= L1, the
\* other arguments being the same, success at L1 implies success at L2 and
\* the confidence at L2 is at least the confidence at L1.
C29_LongerWarningNeverWorse ==
  (Deflected /\ FGe(args.leadTimeYears, Zero(1))) =>
    \A lead \in LongerLeadTimes :
      /\ Outcome.success => OutcomeAtLeadTime(lead).success
      /\ OutcomeAtLeadTime(lead).confidence >= Outcome.confidence

\* a call that fails while the same call with a longer lead time succeeds
\* with a higher confidence
C29_Witness ==
  /\ Deflected /\ FGe(args.leadTimeYears, Zero(1))
  /\ ~Outcome.success
  /\ \E lead \in LongerLeadTimes :
       /\ OutcomeAtLeadTime(lead).success
       /\ OutcomeAtLeadTime(lead).confidence > Outcome.confidence

\* the outcome of the deflection call of the current state with another
\* asteroid velocity
OutcomeAtVelocity(velocity) ==
  calculateDartDeflection(velocity, args.asteroidDiameterM,
                          args.asteroidDensityKgM3, args.leadTimeYears,
                          args.dartMassKg, args.dartVelocityKmS,
                          args.momentumEnhancement)

\* the metrics of the call of the current state with another velocity
MetricsAtVelocity(velocity) ==
  calculateImpactMetrics(args.diameterMeters, velocity, args.densityKgM3,
                         args.targetPopulation)

\* craterDiameterKm, destructionRadiusKm and approxCasualties of metrics
ImpactFootprint(metrics) ==
  << metrics.craterDiameterKm, metrics.destructionRadiusKm,
     metrics.approxCasualties >>

\* C30: two calls of calculateDartDeflection that differ only in the
\* asteroid velocity return the same outcome, and two calls of
\* calculateImpactMetrics that differ only in the velocity return the same
\* craterDiameterKm, destructionRadiusKm and approxCasualties.
C30_VelocityDoesNotInterfere ==
  /\ Deflected => \A v \in Velocities : OutcomeAtVelocity(v) = Outcome
  /\ Measured =>
       \A v \in Velocities :
         ImpactFootprint(MetricsAtVelocity(v)) = ImpactFootprint(ret.value)

\* a measurement at 12 km/s with the footprint of the measurement at 20 km/s
\* and a smaller energy, a population being given
C30_Witness ==
  /\ Measured /\ ValidAsteroid
  /\ FEq(args.velocityKmS, Num(12))
  /\ Truthy(args.targetPopulation)
  /\ ImpactFootprint(MetricsAtVelocity(Num(20))) = ImpactFootprint(ret.value)
  /\ FLt(ret.value.kineticEnergyJ, MetricsAtVelocity(Num(20)).kineticEnergyJ)

---------------------------------------------------------------------------
(* Properties of a session of calls *)

\* no record of the catalogs carries the score of a query
CatalogsUnscored ==
  /\ \A i \in 1..Len(historicalImpacts) : "score" \notin DOMAIN historicalImpacts[i]
  /\ \A i \in 1..Len(majorEarthquakes) : "score" \notin DOMAIN majorEarthquakes[i]

\* C22: no step of a session of queries changes the catalogs: their records,
\* the fields of the records and their order stay as loaded, and the scores
\* of a query are never written to them.
C22_CatalogsReadOnly ==
  [][/\ historicalImpacts' = historicalImpacts
     /\ majorEarthquakes' = majorEarthquakes
     /\ CatalogsUnscored']_vars

\* a matcher about to be queried after a query that returned a scored record
C22_Witness ==
  /\ pc = "ready"
  /\ fn \in {"closestImpact", "closestEarthquake"}
  /\ "after" \in DOMAIN ret
  /\ ret.after.fn \in {"closestImpact", "closestEarthquake"}
  /\ "score" \in DOMAIN ret.after.ret.value
  /\ CatalogsUnscored

\* the result of the call of the current state run on its own
ResultAlone ==
  CASE fn = "calculateDartDeflection" ->
         Returned(calculateDartDeflection(
           args.asteroidVelocityKmS, args.asteroidDiameterM,
           args.asteroidDensityKgM3, args.leadTimeYears, args.dartMassKg,
           args.dartVelocityKmS, args.momentumEnhancement))
    [] fn = "calculateImpactMetrics" ->
         Returned(calculateImpactMetrics(
           args.diameterMeters, args.velocityKmS, args.densityKgM3,
           args.targetPopulation))
    [] fn = "latLonToVector3" ->
         Returned(latLonToVector3(args.lat, args.lon, args.radius))
    [] fn = "vector3ToLatLon" ->
         Returned(vector3ToLatLon(args.x, args.y, args.z, args.radius))
    [] fn = "closestImpact" ->
         closestImpact(args.tntMegatons, args.craterDiameterKm, args.dartStage,
                       historicalImpacts)
    [] fn = "closestEarthquake" ->
         closestEarthquake(args.seismicEquivalentMagnitude, args.tntMegatons,
                           args.dartStage, majorEarthquakes)

---------------------------------------------------------------------------
(* Properties of ImpactStatsModal *)

\* the step in which the modal is opened
Opening == ~isOpen /\ isOpen'

\* the deflection computed by the modal for its asteroid
ModalDeflection ==
  calculateDartDeflection(args.velocity, args.avgDiameter, Num(3000), Num(5),
                          Num(570), Dec(66, -1), Dec(36, -1))

\* what C25 allows a step to do to the DART stage
StageStep ==
  /\ dartStage' # dartStage =>
       \/ /\ dartStage = "idle" /\ dartStage' = "animating"
          /\ impactTrajComplete
          /\ dartResult' = ModalDeflection
       \/ dartStage = "animating" /\ dartStage' = "complete"
       \/ dartStage' = "idle" /\ Opening
  /\ (impactTrajComplete /\ ~impactTrajComplete') => Opening
  /\ dartStage' \in {"animating", "complete"} => dartResult' # Null

\* C25: the DART stage only moves idle -> animating -> complete; it moves to
\* animating only from idle with the impact trajectory complete, in the step
\* that computes the deflection result, so a result is present whenever the
\* stage is animating or complete; the stage returns to idle, and the
\* impact-trajectory flag to false, only in a step that opens the modal.
C25_DartStageOrder == [][StageStep]_vars

\* the modal opened again after a completed DART run: the stage is idle
\* again, the flag is false and the result of the earlier run is still held
C25_Witness ==
  /\ isOpen
  /\ dartStage = "idle"
  /\ ~impactTrajComplete
  /\ dartResult # Null

\* C26: the success of the result computed by the modal is true exactly
\* when the asteroid's average diameter is at most 500 m, whatever its
\* velocity and the miss distance.
C26_SuccessIffAtMost500m ==
  dartResult # Null =>
    (dartResult.success <=> FLe(args.avgDiameter, Num(500)))

\* a success shown for a 500 m asteroid whose miss distance is below the
\* safety threshold
C26_Witness ==
  /\ dartStage = "complete"
  /\ dartResult # Null
  /\ FEq(args.avgDiameter, Num(500))
  /\ dartResult.success
  /\ FLt(dartResult.missDistanceKm, Num(16371))

\* C27: whenever the DART stage is complete, for which the trajectory
\* panel reports "Trajectory deflected", the computed result is a success.
C27_DeflectedOnlyOnSuccess ==
  dartStage = "complete" => (dartResult # Null /\ dartResult.success)

\* C28: with the fetch of the open effect and the fetch of
\* handleDartComplete issued, once both have settled the analysis displayed
\* is that of the later request, and loading is false only when no request
\* is pending.
C28_NoStaleAnalysis ==
  (dartStage = "complete" /\ requestCount = 2) =>
    /\ pending = {} =>
         (geminiAnalysis # Null /\ geminiAnalysis.request = requestCount)
    /\ ~loading => pending = {}

====
